---- MODULE Spec2Model ----
(***************************************************************************)
(* Model of core/video_processor.py (VideoProcessor, a QThread) together   *)
(* with the parts of core/detector.py (PoseDetector) it drives.            *)
(*                                                                         *)
(* Two threads: the caller (GUI) thread issuing load_video / play / pause  *)
(* / set_position / stop_playback / release, and the worker thread         *)
(* executing run() -> _run_internal().  Every `with QMutexLocker` block is *)
(* one atomic step; the code between two such blocks is split at the calls *)
(* that the claims talk about (seek, skip, read, detect, pace, cleanup).   *)
(***************************************************************************)
EXTENDS Integers, Sequences, FiniteSets, TLC

\* ------------------------------------------------------------------ bounds
\* Number of frames of the two fast test videos (60 and 45 fps).
NumFrames == 10
\* Number of frames of the slow test video (25 fps).
ShortFrames == 2
\* A frame index in the middle of the videos, used as a seek target.
MidFrame == 3
\* Largest frame index the caller passes to set_position (beyond NumFrames).
MaxSeek == NumFrames + 1
\* longest processing time of one iteration, in ticks
MaxElapsed == 150
\* largest coordinate offset of a point from the vertex
MaxCoord == 2

\* ------------------------------------------------------- program constants
TARGET_FPS_CAP == 30

NoPath == "None"
GoodPaths == {"a60.mp4", "b45.mp4", "c25.mp4"}
Paths == GoodPaths \cup {"missing.mp4"}

\* cv2.VideoCapture(path).isOpened() as seen by load_video
CanOpen(p) == p \in GoodPaths

\* cap.get(cv2.CAP_PROP_FPS) or 30.0
SourceFps(p) ==
    CASE p = "a60.mp4" -> 60
      [] p = "b45.mp4" -> 45
      [] p = "c25.mp4" -> 25
      [] OTHER -> 30

\* int(cap.get(cv2.CAP_PROP_FRAME_COUNT))
FrameCount(p) ==
    CASE p = "c25.mp4" -> ShortFrames
      [] p \in GoodPaths -> NumFrames
      [] OTHER -> 0

SeekInputs == {0, MidFrame, NumFrames, MaxSeek}

Min(a, b) == IF a <= b THEN a ELSE b
Max(a, b) == IF a >= b THEN a ELSE b

\* Python int(num / den) for den > 0: truncation toward zero.
IntTrunc(num, den) ==
    IF num >= 0 THEN num \div den ELSE -((-num) \div den)

\* target_fps = min(fps, 30.0)
TargetFps(f) == Min(f, TARGET_FPS_CAP)

\* Variant: the step is taken in seconds.
TimestampStep_seconds(f) == IntTrunc(1, f)

\* int(1000.0 / fps), the timestamp step of PoseDetector.process_frame
TimestampStep(f) == IntTrunc(1000, f)

\* Variant: the ratio is left off the second term.
FramesToRead_unscaled(fc, f) ==
    Max(1, IntTrunc(fc * f, TargetFps(f)) - (fc - 1))

\* max(1, int(frame_count * frame_skip_ratio)
\*        - int((frame_count - 1) * frame_skip_ratio))
\* with frame_skip_ratio = fps / target_fps kept as the exact fraction.
FramesToRead(fc, f) ==
    Max(1, IntTrunc(fc * f, TargetFps(f)) - IntTrunc((fc - 1) * f, TargetFps(f)))

\* cap.set(cv2.CAP_PROP_POS_FRAMES, k): the decoder clamps to the stream end.
CapSet(k, n) == Min(k, n)

\* ------------------------------------------------ utils.calculate_angle

Abs(x) == IF x >= 0 THEN x ELSE -x
Sgn(x) == IF x > 0 THEN 1 ELSE IF x < 0 THEN -1 ELSE 0

\* Offsets whose direction is a multiple of 45 degrees (and the null offset):
\* for these np.arctan2 * 180 / pi is a whole number of degrees.
Offsets ==
    {d \in (-MaxCoord .. MaxCoord) \X (-MaxCoord .. MaxCoord) :
        d[1] = 0 \/ d[2] = 0 \/ Abs(d[1]) = Abs(d[2])}
Vertices == {<<0, 0>>, <<1, -1>>}

\* np.arctan2(dy, dx) in degrees, range (-180, 180], arctan2(0, 0) = 0
Atan2Deg(dy, dx) ==
    LET sy == Sgn(dy)
        sx == Sgn(dx)
    IN  IF sy = 0 THEN (IF sx < 0 THEN 180 ELSE 0)
        ELSE IF sx = 0 THEN 90 * sy
        ELSE IF sx > 0 THEN 45 * sy
        ELSE 135 * sy

\* Variant: the difference of the two directions is used without np.abs.
calculate_angle_signed(a, b, c) ==
    LET degrees == Atan2Deg(c[2] - b[2], c[1] - b[1])
                   - Atan2Deg(a[2] - b[2], a[1] - b[1])
    IN  IF degrees > 180 THEN 360 - degrees ELSE degrees

\* utils.calculate_angle, lines 19-24
calculate_angle(a, b, c) ==
    LET degrees == Atan2Deg(c[2] - b[2], c[1] - b[1])
                   - Atan2Deg(a[2] - b[2], a[1] - b[1])
        angle == Abs(degrees)
    IN  IF angle > 180 THEN 360 - angle ELSE angle

\* --------------------------------------- PoseDetector.process_frame angles

AngleKeys == {"Ginocchio", "Anca", "Spalla", "Gomito"}
\* landmark indices each angle is computed from (detector.py 112-129)
AngleLandmarks ==
    [k \in AngleKeys |->
        CASE k = "Ginocchio" -> {23, 25, 27}
          [] k = "Anca" -> {11, 23, 25}
          [] k = "Spalla" -> {23, 11, 13}
          [] k = "Gomito" -> {11, 13, 15}]
\* sizes of the landmark list tried: no pose, a list that ends before the
\* hip landmarks, a list that ends before the ankle, the full list
LandmarkInputs == {0, 16, 27, 33}

\* Variant: each angle is stored as soon as its own three landmarks are
\* fetched, so an IndexError leaves the angles stored before it.
AnglesOf_eager(n) ==
    {k \in AngleKeys : \A idx \in AngleLandmarks[k] : idx < n}

\* detector.py 93-131: nothing without a pose; all six landmarks are
\* fetched before the first angle is stored, and an IndexError in a fetch
\* abandons the whole extraction.
AnglesOf(n) ==
    IF n = 0 THEN {}
    ELSE IF \A k \in AngleKeys : \A idx \in AngleLandmarks[k] : idx < n
         THEN AngleKeys
         ELSE {}

\* Time is counted in ticks of 1/TicksPerSecond s, which makes
\* frame_delay = 1.0 / target_fps a whole number for the rates modelled.
TicksPerSecond == 3000
FrameDelay(tf) == TicksPerSecond \div tf
\* processing times tried by the pacing step: none, exactly one frame
\* interval at 30 fps, and more than any frame interval
ElapsedInputs == {0, FrameDelay(TARGET_FPS_CAP), MaxElapsed}
\* line 184: sleep_time = frame_delay - elapsed
SleepTime(fd, el) == fd - el
\* Variant: the sleep is called whatever the sign of sleep_time.
ShouldSleep_always(st) == TRUE
\* line 185: if sleep_time > 0
ShouldSleep(st) == st > 0

\* ------------------------------------------------------------------- state
VARIABLES
    \* VideoProcessor fields (CommandState + session), guarded by _mutex
    video_path, total_frames, is_playing, stop_requested,
    seek_requested, seek_target,
    \* QThread.isRunning()
    running,
    \* caller thread: position, last command issued, last load_video result,
    \* path being loaded
    cpc, last_op, load_ok, load_path,
    \* worker thread: position and locals of _run_internal
    wpc, path, fps, cap_open, cap_pos, frame_count, playing, seek_req,
    seek_tgt, frames_to_read, frame, failed, exit_path,
    \* PoseDetector owned by the worker
    landmarker, frame_timestamp_ms,
    \* observation counters
    n_reset, seek_credit, skip_n, skip_sum, skip_prev,
    \* signals emitted by the current run: the terminal one (playback_finished
    \* or error_occurred), whether any signal followed a terminal one, the
    \* frame sent with frame_ready in the current loop iteration (-1: none),
    \* and the number of frame_ready signals since stop_requested was set
    terminal, late_event, emitted, frames_since_stop,
    \* pacing of the last completed iteration, in ticks: processing time
    \* measured at line 183 (-1: none), whether time.sleep was called at
    \* line 186 and the duration passed to it
    elapsed, did_sleep, sleep_arg,
    \* calculate_angle: the three points and the two results (-1: not
    \* computed)
    pt_a, pt_b, pt_c, angle_abc, angle_cba,
    \* self._mutex: "free", or the thread inside a QMutexLocker block
    mutex,
    \* result of the last process_frame until the pacing step: number of
    \* landmarks of the detected pose (0: no pose, -1: no result), the keys
    \* of the angles dict, whether angles_updated was emitted
    landmarks, angles, angles_sent,
    \* per loop iteration: number of frame_ready and of position_changed
    \* signals, and the position carried by the last position_changed (-1:
    \* none)
    n_ready, n_pos, pos_sent,
    \* a play() has set is_playing and no pause()/stop_playback() has
    \* followed, and no poll of the worker has yet read is_playing as true
    play_pending

shared == <<video_path, total_frames, is_playing, stop_requested,
            seek_requested, seek_target>>
cmdstate == <<is_playing, stop_requested, seek_requested, seek_target>>
cvars == <<cpc, last_op, load_ok, load_path>>
wlocals == <<path, fps, cap_open, cap_pos, frame_count, playing, seek_req,
             seek_tgt, frames_to_read, frame, failed, exit_path>>
dvars == <<landmarker, frame_timestamp_ms>>
obs == <<n_reset, skip_n, skip_sum, skip_prev>>
wvars == <<wpc, wlocals, dvars, obs>>
evars == <<terminal, late_event, emitted, frames_since_stop>>
pvars == <<elapsed, did_sleep, sleep_arg>>
avars == <<pt_a, pt_b, pt_c, angle_abc, angle_cba>>
gvars == <<landmarks, angles, angles_sent>>
nvars == <<n_ready, n_pos, pos_sent>>
vars == <<shared, running, cvars, wvars, seek_credit, evars, pvars, avars,
          mutex, gvars, nvars, play_pending>>

\* signal.emit() of playback_finished / error_occurred (e) and of the other
\* signals, as seen by the receiver of the run's signals
EmitTerminal(e) ==
    /\ terminal' = IF terminal = "none" THEN e ELSE "many"
    /\ late_event' = (late_event \/ terminal # "none")
EmitSignal ==
    /\ late_event' = (late_event \/ terminal # "none")
    /\ UNCHANGED terminal

IdleProcessor ==
    /\ video_path = NoPath
    /\ total_frames = 0
    /\ is_playing = FALSE
    /\ stop_requested = FALSE
    /\ seek_requested = FALSE
    /\ seek_target = 0
    /\ running = FALSE
    /\ cpc = "idle"
    /\ last_op = "none"
    /\ load_ok = FALSE
    /\ load_path = NoPath
    /\ wpc = "off"
    /\ path = NoPath
    /\ fps = 0
    /\ cap_open = FALSE
    /\ cap_pos = 0
    /\ frame_count = 0
    /\ playing = FALSE
    /\ seek_req = FALSE
    /\ seek_tgt = 0
    /\ frames_to_read = 0
    /\ frame = 0
    /\ failed = FALSE
    /\ exit_path = "none"
    /\ landmarker = FALSE
    /\ frame_timestamp_ms = 0
    /\ n_reset = 0
    /\ seek_credit = 0
    /\ skip_n = 0
    /\ skip_sum = 0
    /\ skip_prev = 0
    /\ terminal = "none"
    /\ late_event = FALSE
    /\ emitted = -1
    /\ frames_since_stop = 0
    /\ elapsed = -1
    /\ did_sleep = FALSE
    /\ sleep_arg = 0
    /\ mutex = "free"
    /\ landmarks = -1
    /\ angles = {}
    /\ angles_sent = FALSE
    /\ n_ready = 0
    /\ n_pos = 0
    /\ pos_sent = -1
    /\ play_pending = FALSE

\* State after construction; no angle has been asked for.
Init ==
    /\ IdleProcessor
    /\ pt_a = <<0, 0>> /\ pt_b = <<0, 0>> /\ pt_c = <<0, 0>>
    /\ angle_abc = -1 /\ angle_cba = -1

\* ------------------------------------------------------------ caller thread
\* Every `with QMutexLocker(self._mutex):` block is two steps: its body,
\* taken when the mutex is free and leaving it held, and the release at the
\* end of the block.  What follows the block waits for that release.

\* end of a with-block of the caller: lines 62, 70, 78, 84, 90
caller_unlock ==
    /\ mutex = "caller"
    /\ mutex' = "free"
    /\ UNCHANGED <<shared, running, cvars, wvars, seek_credit, evars, pvars,
                   avars>>
    /\ UNCHANGED <<gvars, nvars>>
    /\ UNCHANGED play_pending

\* load_video, lines 50-58: probe the source; an unopenable one returns
\* (False, 0, 0, 0.0, 0) at once.
load_video(p) ==
    /\ mutex # "caller"
    /\ cpc = "idle"
    /\ last_op' = "load"
    /\ IF CanOpen(p)
       THEN /\ cpc' = "load_store"
            /\ load_path' = p
            /\ UNCHANGED load_ok
       ELSE /\ cpc' = "idle"
            /\ load_ok' = FALSE
            /\ UNCHANGED load_path
    /\ UNCHANGED <<shared, running, wvars, seek_credit>>
    /\ UNCHANGED evars
    /\ UNCHANGED pvars
    /\ UNCHANGED avars
    /\ UNCHANGED mutex
    /\ UNCHANGED <<gvars, nvars>>
    /\ UNCHANGED play_pending

\* Variant: storing a new session also resets the play and stop flags.
load_video_store_resets ==
    /\ mutex = "free"
    /\ cpc = "load_store"
    /\ video_path' = load_path
    /\ total_frames' = FrameCount(load_path)
    /\ load_ok' = TRUE
    /\ load_path' = NoPath
    /\ cpc' = "idle"
    /\ is_playing' = FALSE
    /\ stop_requested' = FALSE
    /\ UNCHANGED <<seek_requested, seek_target, running, last_op, wvars,
                   seek_credit>>
    /\ UNCHANGED evars
    /\ UNCHANGED pvars
    /\ UNCHANGED avars
    /\ mutex' = "caller"
    /\ UNCHANGED <<gvars, nvars>>
    /\ UNCHANGED play_pending

\* load_video, lines 60-64: store the session under the mutex, return True.
load_video_store ==
    /\ mutex = "free"
    /\ cpc = "load_store"
    /\ video_path' = load_path
    /\ total_frames' = FrameCount(load_path)
    /\ load_ok' = TRUE
    /\ load_path' = NoPath
    /\ cpc' = "idle"
    /\ UNCHANGED <<cmdstate, running, last_op, wvars, seek_credit>>
    /\ UNCHANGED evars
    /\ UNCHANGED pvars
    /\ UNCHANGED avars
    /\ mutex' = "caller"
    /\ UNCHANGED <<gvars, nvars>>
    /\ UNCHANGED play_pending

\* play, lines 68-70
play ==
    /\ mutex = "free"
    /\ cpc = "idle"
    /\ is_playing' = TRUE
    /\ stop_requested' = FALSE
    /\ cpc' = "play_check"
    /\ last_op' = "play"
    /\ UNCHANGED <<video_path, total_frames, seek_requested, seek_target,
                   running, load_ok, load_path, wvars, seek_credit>>
    /\ frames_since_stop' = 0
    /\ UNCHANGED <<terminal, late_event, emitted>>
    /\ UNCHANGED pvars
    /\ UNCHANGED avars
    /\ mutex' = "caller"
    /\ UNCHANGED <<gvars, nvars>>
    /\ play_pending' = TRUE

\* Variant: start() is called without the isRunning() test and begins a
\* fresh run.
play_start_always ==
    /\ mutex # "caller"
    /\ cpc = "play_check"
    /\ cpc' = "idle"
    /\ running' = TRUE
    /\ wpc' = "begin"
    /\ exit_path' = "none"
    /\ failed' = FALSE
    /\ UNCHANGED <<path, fps, cap_open, cap_pos, frame_count, playing,
                   seek_req, seek_tgt, frames_to_read, frame, dvars, obs>>
    /\ UNCHANGED <<shared, last_op, load_ok, load_path, seek_credit>>
    /\ terminal' = "none"
    /\ late_event' = FALSE
    /\ UNCHANGED <<emitted, frames_since_stop>>
    /\ UNCHANGED pvars
    /\ UNCHANGED avars
    /\ UNCHANGED mutex
    /\ UNCHANGED <<gvars, nvars>>
    /\ UNCHANGED play_pending

\* play, lines 72-73: if not self.isRunning(): self.start()
play_start ==
    /\ mutex # "caller"
    /\ cpc = "play_check"
    /\ cpc' = "idle"
    /\ IF running
       THEN UNCHANGED <<running, wvars>>
       ELSE /\ running' = TRUE
            /\ wpc' = "begin"
            /\ exit_path' = "none"
            /\ failed' = FALSE
            /\ UNCHANGED <<path, fps, cap_open, cap_pos, frame_count, playing,
                           seek_req, seek_tgt, frames_to_read, frame, dvars, obs>>
    /\ UNCHANGED <<shared, last_op, load_ok, load_path, seek_credit>>
    /\ terminal' = IF running THEN terminal ELSE "none"
    /\ late_event' = (running /\ late_event)
    /\ UNCHANGED <<emitted, frames_since_stop>>
    /\ UNCHANGED pvars
    /\ UNCHANGED avars
    /\ UNCHANGED mutex
    /\ UNCHANGED <<gvars, nvars>>
    /\ UNCHANGED play_pending

\* pause, lines 77-78
pause ==
    /\ mutex = "free"
    /\ cpc = "idle"
    /\ is_playing' = FALSE
    /\ last_op' = "pause"
    /\ UNCHANGED <<video_path, total_frames, stop_requested, seek_requested,
                   seek_target, running, cpc, load_ok, load_path, wvars,
                   seek_credit>>
    /\ UNCHANGED evars
    /\ UNCHANGED pvars
    /\ UNCHANGED avars
    /\ mutex' = "caller"
    /\ UNCHANGED <<gvars, nvars>>
    /\ play_pending' = FALSE

\* set_position, lines 82-84
set_position(frame_idx) ==
    /\ mutex = "free"
    /\ cpc = "idle"
    /\ seek_requested' = TRUE
    /\ seek_target' = frame_idx
    /\ seek_credit' = 1
    /\ last_op' = "seek"
    /\ UNCHANGED <<video_path, total_frames, is_playing, stop_requested,
                   running, cpc, load_ok, load_path, wvars>>
    /\ UNCHANGED evars
    /\ UNCHANGED pvars
    /\ UNCHANGED avars
    /\ mutex' = "caller"
    /\ UNCHANGED <<gvars, nvars>>
    /\ UNCHANGED play_pending

\* Variant: stopping sets the stop flag only and leaves the play flag.
stop_playback_keeps_playing ==
    /\ mutex = "free"
    /\ cpc = "idle"
    /\ stop_requested' = TRUE
    /\ cpc' = "stop_wait"
    /\ last_op' = IF last_op \in {"stop", "stop_again"} THEN "stop_again"
                                                          ELSE "stop"
    /\ UNCHANGED <<video_path, total_frames, is_playing, seek_requested,
                   seek_target, running, load_ok, load_path, wvars,
                   seek_credit>>
    /\ frames_since_stop' = IF stop_requested THEN frames_since_stop ELSE 0
    /\ UNCHANGED <<terminal, late_event, emitted>>
    /\ UNCHANGED pvars
    /\ UNCHANGED avars
    /\ mutex' = "caller"
    /\ UNCHANGED <<gvars, nvars>>
    /\ play_pending' = FALSE

\* stop_playback, lines 88-90; release (line 205) is a call of it.  last_op
\* tells a call that directly follows another stop_playback from a first one.
stop_playback ==
    /\ mutex = "free"
    /\ cpc = "idle"
    /\ is_playing' = FALSE
    /\ stop_requested' = TRUE
    /\ cpc' = "stop_wait"
    /\ last_op' = IF last_op \in {"stop", "stop_again"} THEN "stop_again"
                                                          ELSE "stop"
    /\ UNCHANGED <<video_path, total_frames, seek_requested, seek_target,
                   running, load_ok, load_path, wvars, seek_credit>>
    /\ frames_since_stop' = IF stop_requested THEN frames_since_stop ELSE 0
    /\ UNCHANGED <<terminal, late_event, emitted>>
    /\ UNCHANGED pvars
    /\ UNCHANGED avars
    /\ mutex' = "caller"
    /\ UNCHANGED <<gvars, nvars>>
    /\ play_pending' = FALSE

\* Variant: the wait is made inside the with-block, the mutex still held.
stop_wait_locked ==
    /\ mutex = "caller"
    /\ cpc = "stop_wait"
    /\ cpc' = "idle"
    /\ UNCHANGED <<shared, running, last_op, load_ok, load_path, wvars,
                   seek_credit>>
    /\ UNCHANGED evars
    /\ UNCHANGED pvars
    /\ UNCHANGED avars
    /\ mutex' = "free"
    /\ UNCHANGED <<gvars, nvars>>
    /\ UNCHANGED play_pending

\* stop_playback, line 92: self.wait(3000) returns when the thread has
\* finished or when the timeout elapses, whichever comes first.
stop_wait ==
    /\ mutex # "caller"
    /\ cpc = "stop_wait"
    /\ cpc' = "idle"
    /\ UNCHANGED <<shared, running, last_op, load_ok, load_path, wvars,
                   seek_credit>>
    /\ UNCHANGED evars
    /\ UNCHANGED pvars
    /\ UNCHANGED avars
    /\ UNCHANGED mutex
    /\ UNCHANGED <<gvars, nvars>>
    /\ UNCHANGED play_pending

\* ------------------------------------------------------------ worker thread

\* end of a with-block of the worker: lines 109, 136, 201
worker_unlock ==
    /\ mutex = "worker"
    /\ mutex' = "free"
    /\ UNCHANGED <<shared, running, cvars, wvars, seek_credit, evars, pvars,
                   avars>>
    /\ UNCHANGED <<gvars, nvars>>
    /\ UNCHANGED play_pending

\* _run_internal, lines 108-112: read the path under the mutex; no session
\* loaded -> return.
run_begin ==
    /\ mutex = "free"
    /\ wpc = "begin"
    /\ path' = video_path
    /\ IF video_path = NoPath
       THEN /\ exit_path' = "no_session"
            /\ wpc' = "finishing"
       ELSE /\ wpc' = "open"
            /\ UNCHANGED exit_path
    /\ UNCHANGED <<shared, running, cvars, fps, cap_open, cap_pos, frame_count,
                   playing, seek_req, seek_tgt, frames_to_read, frame, failed,
                   dvars, obs, seek_credit>>
    /\ UNCHANGED evars
    /\ UNCHANGED pvars
    /\ UNCHANGED avars
    /\ mutex' = "worker"
    /\ UNCHANGED <<gvars, nvars>>
    /\ UNCHANGED play_pending

\* _run_internal, lines 114-127: open the source (the file may have gone
\* since load_video probed it), derive the rates, create the PoseDetector.
open_capture ==
    /\ mutex # "worker"
    /\ wpc = "open"
    /\ \E opened \in BOOLEAN :
         IF opened
         THEN /\ cap_open' = TRUE
              /\ cap_pos' = 0
              /\ fps' = SourceFps(path)
              /\ landmarker' = FALSE
              /\ frame_timestamp_ms' = 0
              /\ frame_count' = 0
              /\ wpc' = "poll"
              /\ UNCHANGED <<exit_path, terminal, late_event>>
         ELSE /\ exit_path' = "open_failed"
              /\ wpc' = "finishing"
              /\ EmitTerminal("error")
              /\ UNCHANGED <<cap_open, cap_pos, fps, landmarker,
                             frame_timestamp_ms, frame_count>>
    /\ UNCHANGED <<shared, running, cvars, path, playing, seek_req, seek_tgt,
                   frames_to_read, frame, failed, obs, seek_credit>>
    /\ UNCHANGED <<emitted, frames_since_stop>>
    /\ UNCHANGED pvars
    /\ UNCHANGED avars
    /\ UNCHANGED mutex
    /\ UNCHANGED <<gvars, nvars>>
    /\ UNCHANGED play_pending

\* Variant: the stop test sits behind the idle branch, so a paused worker
\* never sees it.
poll_commands_stop_when_playing ==
    /\ mutex = "free"
    /\ wpc = "poll"
    /\ IF stop_requested /\ is_playing
       THEN /\ exit_path' = "stopped"
            /\ wpc' = "finally"
            /\ UNCHANGED <<playing, seek_req, seek_tgt, seek_requested,
                           n_reset, seek_credit, play_pending>>
       ELSE /\ playing' = is_playing
            /\ seek_req' = seek_requested
            /\ seek_tgt' = seek_target
            /\ seek_requested' = FALSE
            /\ n_reset' = 0
            /\ seek_credit' = IF seek_requested THEN seek_credit - 1
                                                ELSE seek_credit
            /\ wpc' = "seek"
            /\ play_pending' = (play_pending /\ ~is_playing)
            /\ UNCHANGED exit_path
    /\ UNCHANGED <<video_path, total_frames, is_playing, stop_requested,
                   seek_target, running, cvars, path, fps, cap_open, cap_pos,
                   frame_count, frames_to_read, frame, failed, dvars,
                   skip_n, skip_sum, skip_prev>>
    /\ emitted' = -1
    /\ UNCHANGED <<terminal, late_event, frames_since_stop>>
    /\ elapsed' = -1
    /\ did_sleep' = FALSE
    /\ sleep_arg' = 0
    /\ UNCHANGED avars
    /\ mutex' = "worker"
    /\ UNCHANGED gvars
    /\ n_ready' = 0
    /\ n_pos' = 0
    /\ pos_sent' = -1

\* Variant: the request flag is read but not cleared.
poll_commands_keeps_request ==
    /\ mutex = "free"
    /\ wpc = "poll"
    /\ IF stop_requested
       THEN /\ exit_path' = "stopped"
            /\ wpc' = "finally"
            /\ UNCHANGED <<playing, seek_req, seek_tgt, seek_requested,
                           n_reset, seek_credit, play_pending>>
       ELSE /\ playing' = is_playing
            /\ seek_req' = seek_requested
            /\ seek_tgt' = seek_target
            /\ UNCHANGED seek_requested
            /\ n_reset' = 0
            /\ seek_credit' = IF seek_requested THEN seek_credit - 1
                                                ELSE seek_credit
            /\ wpc' = "seek"
            /\ play_pending' = (play_pending /\ ~is_playing)
            /\ UNCHANGED exit_path
    /\ UNCHANGED <<video_path, total_frames, is_playing, stop_requested,
                   seek_target, running, cvars, path, fps, cap_open, cap_pos,
                   frame_count, frames_to_read, frame, failed, dvars,
                   skip_n, skip_sum, skip_prev>>
    /\ emitted' = -1
    /\ UNCHANGED <<terminal, late_event, frames_since_stop>>
    /\ elapsed' = -1
    /\ did_sleep' = FALSE
    /\ sleep_arg' = 0
    /\ UNCHANGED avars
    /\ mutex' = "worker"
    /\ UNCHANGED gvars
    /\ n_ready' = 0
    /\ n_pos' = 0
    /\ pos_sent' = -1

\* _run_internal, lines 128-136: one critical section reads stop, play and
\* seek state and clears seek_requested.
poll_commands ==
    /\ mutex = "free"
    /\ wpc = "poll"
    /\ IF stop_requested
       THEN /\ exit_path' = "stopped"
            /\ wpc' = "finally"
            /\ UNCHANGED <<playing, seek_req, seek_tgt, seek_requested,
                           n_reset, seek_credit, play_pending>>
       ELSE /\ playing' = is_playing
            /\ seek_req' = seek_requested
            /\ seek_tgt' = seek_target
            /\ seek_requested' = FALSE
            /\ n_reset' = 0
            /\ seek_credit' = IF seek_requested THEN seek_credit - 1
                                                ELSE seek_credit
            /\ wpc' = "seek"
            /\ play_pending' = (play_pending /\ ~is_playing)
            /\ UNCHANGED exit_path
    /\ UNCHANGED <<video_path, total_frames, is_playing, stop_requested,
                   seek_target, running, cvars, path, fps, cap_open, cap_pos,
                   frame_count, frames_to_read, frame, failed, dvars,
                   skip_n, skip_sum, skip_prev>>
    /\ emitted' = -1
    /\ UNCHANGED <<terminal, late_event, frames_since_stop>>
    /\ elapsed' = -1
    /\ did_sleep' = FALSE
    /\ sleep_arg' = 0
    /\ UNCHANGED avars
    /\ mutex' = "worker"
    /\ UNCHANGED gvars
    /\ n_ready' = 0
    /\ n_pos' = 0
    /\ pos_sent' = -1

\* Variant: no idle branch, every iteration goes on to read a frame.
handle_seek_no_idle ==
    /\ mutex # "worker"
    /\ wpc = "seek"
    /\ IF seek_req
       THEN /\ cap_pos' = CapSet(seek_tgt, FrameCount(path))
            /\ frame_count' = seek_tgt
            /\ landmarker' = FALSE
            /\ frame_timestamp_ms' = 0
            /\ n_reset' = n_reset + 1
       ELSE UNCHANGED <<cap_pos, frame_count, landmarker, frame_timestamp_ms,
                        n_reset>>
    /\ wpc' = "skip"
    /\ UNCHANGED <<shared, running, cvars, path, fps, cap_open, playing,
                   seek_req, seek_tgt, frames_to_read, frame, failed,
                   exit_path, skip_n, skip_sum, skip_prev, seek_credit>>
    /\ UNCHANGED evars
    /\ UNCHANGED pvars
    /\ UNCHANGED avars
    /\ UNCHANGED mutex
    /\ UNCHANGED <<gvars, nvars>>
    /\ UNCHANGED play_pending

\* _run_internal, lines 138-148: reposition + detector.reset() on a seek;
\* paused and no seek -> sleep 50 ms and poll again.
handle_seek ==
    /\ mutex # "worker"
    /\ wpc = "seek"
    /\ IF seek_req
       THEN /\ cap_pos' = CapSet(seek_tgt, FrameCount(path))
            /\ frame_count' = seek_tgt
            /\ landmarker' = FALSE
            /\ frame_timestamp_ms' = 0
            /\ n_reset' = n_reset + 1
       ELSE UNCHANGED <<cap_pos, frame_count, landmarker, frame_timestamp_ms,
                        n_reset>>
    /\ wpc' = IF ~playing /\ ~seek_req THEN "poll" ELSE "skip"
    /\ UNCHANGED <<shared, running, cvars, path, fps, cap_open, playing,
                   seek_req, seek_tgt, frames_to_read, frame, failed,
                   exit_path, skip_n, skip_sum, skip_prev, seek_credit>>
    /\ UNCHANGED evars
    /\ UNCHANGED pvars
    /\ UNCHANGED avars
    /\ UNCHANGED mutex
    /\ UNCHANGED <<gvars, nvars>>
    /\ UNCHANGED play_pending

\* Variant: the skip is applied in seek iterations too.
skip_frames_always ==
    /\ mutex # "worker"
    /\ wpc = "skip"
    /\ IF fps > TargetFps(fps)
       THEN /\ frames_to_read' = FramesToRead(frame_count, fps)
            /\ cap_pos' = Min(cap_pos + frames_to_read' - 1, FrameCount(path))
            /\ skip_n' = skip_n + 1
            /\ skip_sum' = skip_sum + frames_to_read'
            /\ skip_prev' = frames_to_read
       ELSE /\ frames_to_read' = 0
            /\ skip_n' = 0
            /\ skip_sum' = 0
            /\ skip_prev' = 0
            /\ UNCHANGED cap_pos
    /\ wpc' = "read"
    /\ UNCHANGED <<shared, running, cvars, path, fps, cap_open, frame_count,
                   playing, seek_req, seek_tgt, frame, failed, exit_path,
                   dvars, n_reset, seek_credit>>
    /\ UNCHANGED evars
    /\ UNCHANGED pvars
    /\ UNCHANGED avars
    /\ UNCHANGED mutex
    /\ UNCHANGED <<gvars, nvars>>
    /\ UNCHANGED play_pending

\* _run_internal, lines 150-156: drop the surplus frames of a fast source,
\* except in the iteration that served a seek.
skip_frames ==
    /\ mutex # "worker"
    /\ wpc = "skip"
    /\ IF ~seek_req /\ fps > TargetFps(fps)
       THEN /\ frames_to_read' = FramesToRead(frame_count, fps)
            /\ cap_pos' = Min(cap_pos + frames_to_read' - 1, FrameCount(path))
            /\ skip_n' = skip_n + 1
            /\ skip_sum' = skip_sum + frames_to_read'
            /\ skip_prev' = frames_to_read
       ELSE /\ frames_to_read' = 0
            /\ skip_n' = 0
            /\ skip_sum' = 0
            /\ skip_prev' = 0
            /\ UNCHANGED cap_pos
    /\ wpc' = "read"
    /\ UNCHANGED <<shared, running, cvars, path, fps, cap_open, frame_count,
                   playing, seek_req, seek_tgt, frame, failed, exit_path,
                   dvars, n_reset, seek_credit>>
    /\ UNCHANGED evars
    /\ UNCHANGED pvars
    /\ UNCHANGED avars
    /\ UNCHANGED mutex
    /\ UNCHANGED <<gvars, nvars>>
    /\ UNCHANGED play_pending

\* Variant: position_changed carries the counter as it was before the read.
read_frame_stale_position ==
    /\ mutex # "worker"
    /\ wpc = "read"
    /\ IF cap_pos < FrameCount(path)
       THEN /\ frame' = cap_pos
            /\ cap_pos' = cap_pos + 1
            /\ frame_count' = cap_pos + 1
            /\ wpc' = "detect"
            /\ EmitSignal
            /\ n_pos' = Min(n_pos + 1, 2)
            /\ pos_sent' = frame_count
            /\ UNCHANGED <<exit_path, n_ready>>
       ELSE /\ exit_path' = "finished"
            /\ wpc' = "finally"
            /\ EmitTerminal("finished")
            /\ UNCHANGED <<frame, cap_pos, frame_count, nvars>>
    /\ UNCHANGED <<shared, running, cvars, path, fps, cap_open, playing,
                   seek_req, seek_tgt, frames_to_read, failed, dvars, obs,
                   seek_credit, emitted, frames_since_stop>>
    /\ UNCHANGED pvars
    /\ UNCHANGED avars
    /\ UNCHANGED mutex
    /\ UNCHANGED gvars
    /\ UNCHANGED play_pending

\* Variant: playback_finished is emitted but the loop is not left.
read_frame_no_break ==
    /\ mutex # "worker"
    /\ wpc = "read"
    /\ IF cap_pos < FrameCount(path)
       THEN /\ frame' = cap_pos
            /\ cap_pos' = cap_pos + 1
            /\ frame_count' = cap_pos + 1
            /\ wpc' = "detect"
            /\ EmitSignal
            /\ n_pos' = Min(n_pos + 1, 2)
            /\ pos_sent' = frame_count'
            /\ UNCHANGED <<exit_path, n_ready>>
       ELSE /\ exit_path' = "finished"
            /\ wpc' = "poll"
            /\ EmitTerminal("finished")
            /\ UNCHANGED <<frame, cap_pos, frame_count, nvars>>
    /\ UNCHANGED <<shared, running, cvars, path, fps, cap_open, playing,
                   seek_req, seek_tgt, frames_to_read, failed, dvars, obs,
                   seek_credit, emitted, frames_since_stop>>
    /\ UNCHANGED pvars
    /\ UNCHANGED avars
    /\ UNCHANGED mutex
    /\ UNCHANGED gvars
    /\ UNCHANGED play_pending

\* _run_internal, lines 158-164: read one frame and emit position_changed;
\* none left -> emit playback_finished and leave the loop.
read_frame ==
    /\ mutex # "worker"
    /\ wpc = "read"
    /\ IF cap_pos < FrameCount(path)
       THEN /\ frame' = cap_pos
            /\ cap_pos' = cap_pos + 1
            /\ frame_count' = cap_pos + 1
            /\ wpc' = "detect"
            /\ EmitSignal
            /\ n_pos' = Min(n_pos + 1, 2)
            /\ pos_sent' = frame_count'
            /\ UNCHANGED <<exit_path, n_ready>>
       ELSE /\ exit_path' = "finished"
            /\ wpc' = "finally"
            /\ EmitTerminal("finished")
            /\ UNCHANGED <<frame, cap_pos, frame_count, nvars>>
    /\ UNCHANGED <<shared, running, cvars, path, fps, cap_open, playing,
                   seek_req, seek_tgt, frames_to_read, failed, dvars, obs,
                   seek_credit, emitted, frames_since_stop>>
    /\ UNCHANGED pvars
    /\ UNCHANGED avars
    /\ UNCHANGED mutex
    /\ UNCHANGED gvars
    /\ UNCHANGED play_pending

\* _run_internal, lines 166-181 with PoseDetector.process_frame: create the
\* landmarker on first use, advance the timestamp, detect.  Either call into
\* MediaPipe may raise; on success frame_ready is emitted, and
\* angles_updated when the angles dict is not empty (line 180).  playing, seek_req, seek_tgt and frame are not read after this
\* step and are overwritten before their next use.
process_frame ==
    /\ mutex # "worker"
    /\ wpc = "detect"
    /\ \E outcome \in {"ok", "init_error", "detect_error"} :
         /\ outcome = "init_error" => ~landmarker
         /\ IF outcome = "init_error"
            THEN UNCHANGED <<landmarker, frame_timestamp_ms>>
            ELSE /\ landmarker' = TRUE
                 /\ frame_timestamp_ms' =
                        (IF landmarker THEN frame_timestamp_ms ELSE 0)
                        + TimestampStep(TargetFps(fps))
         /\ IF outcome = "ok"
            THEN /\ wpc' = "pace"
                 /\ EmitSignal
                 /\ emitted' = frame
                 /\ frames_since_stop' =
                        IF stop_requested THEN Min(frames_since_stop + 1, 2)
                                          ELSE 0
                 /\ n_ready' = Min(n_ready + 1, 2)
                 /\ \E n \in LandmarkInputs :
                      /\ landmarks' = n
                      /\ angles' = AnglesOf(n)
                      /\ angles_sent' = (AnglesOf(n) # {})
                 /\ UNCHANGED <<failed, exit_path>>
            ELSE /\ failed' = TRUE
                 /\ exit_path' = "failed"
                 /\ wpc' = "finally"
                 /\ UNCHANGED <<evars, gvars, n_ready>>
    /\ playing' = FALSE
    /\ seek_req' = FALSE
    /\ seek_tgt' = 0
    /\ frame' = 0
    /\ UNCHANGED <<shared, running, cvars, path, fps, cap_open, cap_pos,
                   frame_count, frames_to_read, obs, seek_credit, n_pos,
                   pos_sent>>
    /\ UNCHANGED pvars
    /\ UNCHANGED avars
    /\ UNCHANGED mutex
    /\ UNCHANGED play_pending

\* Variant: the loop goes on to its next frame without polling the commands.
pace_without_poll ==
    /\ mutex # "worker"
    /\ wpc = "pace"
    /\ wpc' = "skip"
    /\ \E el \in ElapsedInputs :
         LET sleep_time == SleepTime(FrameDelay(TargetFps(fps)), el)
             slept == IF ShouldSleep(sleep_time) THEN sleep_time ELSE 0
         IN  /\ elapsed' = el
             /\ did_sleep' = ShouldSleep(sleep_time)
             /\ sleep_arg' = slept
             /\ IF el + slept > 0
                THEN EmitSignal
                ELSE UNCHANGED <<terminal, late_event>>
    /\ UNCHANGED <<shared, running, cvars, wlocals, dvars, obs, seek_credit>>
    /\ UNCHANGED <<emitted, frames_since_stop>>
    /\ UNCHANGED avars
    /\ UNCHANGED mutex
    /\ landmarks' = -1
    /\ angles' = {}
    /\ angles_sent' = FALSE
    /\ UNCHANGED nvars
    /\ UNCHANGED play_pending

\* _run_internal, lines 183-192: measure the processing time, sleep the rest
\* of the frame interval if any is left, emit fps_updated when the measured
\* iteration time is positive.
pace ==
    /\ mutex # "worker"
    /\ wpc = "pace"
    /\ wpc' = "poll"
    /\ \E el \in ElapsedInputs :
         LET sleep_time == SleepTime(FrameDelay(TargetFps(fps)), el)
             slept == IF ShouldSleep(sleep_time) THEN sleep_time ELSE 0
         IN  /\ elapsed' = el
             /\ did_sleep' = ShouldSleep(sleep_time)
             /\ sleep_arg' = slept
             /\ IF el + slept > 0
                THEN EmitSignal
                ELSE UNCHANGED <<terminal, late_event>>
    /\ UNCHANGED <<shared, running, cvars, wlocals, dvars, obs, seek_credit>>
    /\ UNCHANGED <<emitted, frames_since_stop>>
    /\ UNCHANGED avars
    /\ UNCHANGED mutex
    /\ landmarks' = -1
    /\ angles' = {}
    /\ angles_sent' = FALSE
    /\ UNCHANGED nvars
    /\ UNCHANGED play_pending

\* Variant: the releases sit after the loop, not in a finally clause.
cleanup_not_on_error ==
    /\ mutex # "worker"
    /\ wpc = "finally"
    /\ cap_open' = (failed /\ cap_open)
    /\ landmarker' = (failed /\ landmarker)
    /\ wpc' = IF failed THEN "except" ELSE "reset_flags"
    /\ path' = NoPath
    /\ fps' = 0
    /\ cap_pos' = 0
    /\ frame_count' = 0
    /\ playing' = FALSE
    /\ seek_req' = FALSE
    /\ seek_tgt' = 0
    /\ frames_to_read' = 0
    /\ frame' = 0
    /\ frame_timestamp_ms' = 0
    /\ n_reset' = 0
    /\ skip_n' = 0
    /\ skip_sum' = 0
    /\ skip_prev' = 0
    /\ UNCHANGED <<shared, running, cvars, failed, exit_path, seek_credit>>
    /\ emitted' = -1
    /\ UNCHANGED <<terminal, late_event, frames_since_stop>>
    /\ UNCHANGED pvars
    /\ UNCHANGED avars
    /\ UNCHANGED mutex
    /\ UNCHANGED gvars
    /\ n_ready' = 0
    /\ n_pos' = 0
    /\ pos_sent' = -1
    /\ UNCHANGED play_pending

\* _run_internal, lines 194-196: finally: cap.release(); detector.release()
\* (detector.py lines 142-146 close and drop the landmarker);
\* a pending exception then propagates to run().  The loop's locals are
\* not used past this point.
cleanup ==
    /\ mutex # "worker"
    /\ wpc = "finally"
    /\ cap_open' = FALSE
    /\ landmarker' = FALSE
    /\ wpc' = IF failed THEN "except" ELSE "reset_flags"
    /\ path' = NoPath
    /\ fps' = 0
    /\ cap_pos' = 0
    /\ frame_count' = 0
    /\ playing' = FALSE
    /\ seek_req' = FALSE
    /\ seek_tgt' = 0
    /\ frames_to_read' = 0
    /\ frame' = 0
    /\ frame_timestamp_ms' = 0
    /\ n_reset' = 0
    /\ skip_n' = 0
    /\ skip_sum' = 0
    /\ skip_prev' = 0
    /\ UNCHANGED <<shared, running, cvars, failed, exit_path, seek_credit>>
    /\ emitted' = -1
    /\ UNCHANGED <<terminal, late_event, frames_since_stop>>
    /\ UNCHANGED pvars
    /\ UNCHANGED avars
    /\ UNCHANGED mutex
    /\ UNCHANGED gvars
    /\ n_ready' = 0
    /\ n_pos' = 0
    /\ pos_sent' = -1
    /\ UNCHANGED play_pending

\* Variant: the reset on the way out clears the seek request too.
reset_flags_clears_seek ==
    /\ mutex = "free"
    /\ wpc = "reset_flags"
    /\ is_playing' = FALSE
    /\ stop_requested' = FALSE
    /\ seek_requested' = FALSE
    /\ wpc' = "finishing"
    /\ UNCHANGED <<video_path, total_frames, seek_target,
                   running, cvars, wlocals, dvars, obs, seek_credit>>
    /\ frames_since_stop' = 0
    /\ UNCHANGED <<terminal, late_event, emitted>>
    /\ UNCHANGED pvars
    /\ UNCHANGED avars
    /\ mutex' = "worker"
    /\ UNCHANGED <<gvars, nvars>>
    /\ UNCHANGED play_pending

\* _run_internal, lines 198-201: reset the flags for a later playback.
reset_flags ==
    /\ mutex = "free"
    /\ wpc = "reset_flags"
    /\ is_playing' = FALSE
    /\ stop_requested' = FALSE
    /\ wpc' = "finishing"
    /\ UNCHANGED <<video_path, total_frames, seek_requested, seek_target,
                   running, cvars, wlocals, dvars, obs, seek_credit>>
    /\ frames_since_stop' = 0
    /\ UNCHANGED <<terminal, late_event, emitted>>
    /\ UNCHANGED pvars
    /\ UNCHANGED avars
    /\ mutex' = "worker"
    /\ UNCHANGED <<gvars, nvars>>
    /\ UNCHANGED play_pending

\* Variant: the except clause swallows the exception.
run_except_silent ==
    /\ mutex # "worker"
    /\ wpc = "except"
    /\ wpc' = "finishing"
    /\ UNCHANGED <<shared, running, cvars, wlocals, dvars, obs, seek_credit>>
    /\ UNCHANGED evars
    /\ UNCHANGED pvars
    /\ UNCHANGED avars
    /\ UNCHANGED mutex
    /\ UNCHANGED <<gvars, nvars>>
    /\ UNCHANGED play_pending

\* run, lines 102-105: the except clause emits error_occurred.
run_except ==
    /\ mutex # "worker"
    /\ wpc = "except"
    /\ wpc' = "finishing"
    /\ UNCHANGED <<shared, running, cvars, wlocals, dvars, obs, seek_credit>>
    /\ EmitTerminal("error")
    /\ UNCHANGED <<emitted, frames_since_stop>>
    /\ UNCHANGED pvars
    /\ UNCHANGED avars
    /\ UNCHANGED mutex
    /\ UNCHANGED <<gvars, nvars>>
    /\ UNCHANGED play_pending

\* run() has returned: the thread finishes and isRunning() becomes false.
thread_finished ==
    /\ mutex # "worker"
    /\ wpc = "finishing"
    /\ running' = FALSE
    /\ wpc' = "off"
    /\ path' = NoPath
    /\ UNCHANGED <<shared, cvars, fps, cap_open, cap_pos, frame_count, playing,
                   seek_req, seek_tgt, frames_to_read, frame, failed,
                   exit_path, dvars, obs, seek_credit>>
    /\ UNCHANGED evars
    /\ UNCHANGED pvars
    /\ UNCHANGED avars
    /\ UNCHANGED mutex
    /\ UNCHANGED <<gvars, nvars>>
    /\ UNCHANGED play_pending

\* ------------------------------------------------------------ specification
Caller ==
    \/ \E p \in Paths : load_video(p)
    \/ load_video_store
    \/ play
    \/ play_start
    \/ pause
    \/ \E k \in SeekInputs : set_position(k)
    \/ stop_playback
    \/ stop_wait
    \/ caller_unlock

Worker ==
    \/ run_begin
    \/ open_capture
    \/ poll_commands
    \/ handle_seek
    \/ skip_frames
    \/ read_frame
    \/ process_frame
    \/ pace
    \/ cleanup
    \/ reset_flags
    \/ run_except
    \/ thread_finished
    \/ worker_unlock

Next == Caller \/ Worker

Spec == Init /\ [][Next]_vars

\* calculate_angle on its own: any vertex, any two offsets, both argument
\* orders.
AngleInit ==
    /\ IdleProcessor
    /\ pt_b \in Vertices
    /\ \E da \in Offsets : pt_a = <<pt_b[1] + da[1], pt_b[2] + da[2]>>
    /\ \E dc \in Offsets : pt_c = <<pt_b[1] + dc[1], pt_b[2] + dc[2]>>
    /\ angle_abc = -1 /\ angle_cba = -1

compute_angles ==
    /\ angle_abc = -1
    /\ angle_abc' = calculate_angle(pt_a, pt_b, pt_c)
    /\ angle_cba' = calculate_angle(pt_c, pt_b, pt_a)
    /\ UNCHANGED <<shared, running, cvars, wvars, seek_credit, evars, pvars,
                   pt_a, pt_b, pt_c, mutex, gvars, nvars, play_pending>>

AngleNext == compute_angles

AngleSpec == AngleInit /\ [][AngleNext]_vars

\* The caller working on the short source only, with one seek target inside
\* it and one beyond its end.
FairCaller ==
    \/ load_video("c25.mp4")
    \/ load_video_store
    \/ play
    \/ play_start
    \/ pause
    \/ \E k \in {0, MidFrame} : set_position(k)
    \/ stop_playback
    \/ stop_wait
    \/ caller_unlock

FairNext == FairCaller \/ Worker

\* Fair scheduling: the worker thread keeps getting the processor and the
\* mutex (it is not starved by a caller that re-takes the mutex for ever),
\* and a with-block of the caller comes to its end.
FairSpec ==
    Init /\ [][FairNext]_vars /\ SF_vars(Worker) /\ WF_vars(caller_unlock)

TypeOK ==
    /\ video_path \in GoodPaths \cup {NoPath}
    /\ total_frames \in {0, NumFrames, ShortFrames}
    /\ is_playing \in BOOLEAN /\ stop_requested \in BOOLEAN
    /\ seek_requested \in BOOLEAN /\ seek_target \in SeekInputs
    /\ running \in BOOLEAN
    /\ cpc \in {"idle", "load_store", "play_check", "stop_wait"}
    /\ wpc \in {"off", "begin", "open", "poll", "seek", "skip", "read",
                "detect", "pace", "finally", "reset_flags", "except",
                "finishing"}
    /\ cap_pos \in 0 .. NumFrames
    /\ frame_count \in 0 .. MaxSeek
    /\ running = (wpc # "off")
    /\ terminal \in {"none", "finished", "error", "many"}
    /\ late_event \in BOOLEAN
    /\ emitted \in -1 .. NumFrames
    /\ frames_since_stop \in 0 .. 2
    /\ elapsed \in ElapsedInputs \cup {-1}
    /\ did_sleep \in BOOLEAN
    /\ sleep_arg \in 0 .. TicksPerSecond
    /\ mutex \in {"free", "caller", "worker"}
    /\ landmarks \in LandmarkInputs \cup {-1}
    /\ angles \subseteq AngleKeys
    /\ angles_sent \in BOOLEAN
    /\ n_ready \in 0 .. 1 /\ n_pos \in 0 .. 1
    /\ pos_sent \in -1 .. NumFrames
    /\ play_pending \in BOOLEAN

\* ------------------------------------------------------------------ claims

\* C1: in a loop iteration whose poll observed a seek request, detector.reset()
\* has been called exactly once (landmarker dropped, timestamp 0) when the
\* detect call is reached; in an iteration that observed none it has not been
\* called; and every observed request is backed by its own set_position call,
\* so one request is never served twice.
C1_ResetOncePerObservedSeek ==
    /\ wpc = "detect" => n_reset = (IF seek_req THEN 1 ELSE 0)
    /\ (wpc = "detect" /\ seek_req) => (~landmarker /\ frame_timestamp_ms = 0)
    /\ seek_credit >= 0

C1_Witness ==
    /\ wpc = "detect" /\ seek_req /\ n_reset = 1
    /\ seek_tgt \in 0 .. total_frames
    /\ seek_credit = 0

\* C2 (as stated): whenever a seek to a frame in [0, total_frames] has been
\* issued and is still pending, the frame the worker processes next is the
\* frame at seek_target.
C2_Original ==
    (wpc = "detect" /\ seek_requested /\ seek_target \in 0 .. total_frames)
        => frame = seek_target

\* C2 (amended): in the iteration whose poll observed the seek, with the
\* target inside the open source, the source position and the frame counter
\* are seek_tgt, no skip is applied, and the single read returns the frame at
\* seek_tgt (or, at the end position, no frame: the run ends as finished).
C2_SeekIterationReadsTarget ==
    /\ (wpc \in {"skip", "read"} /\ seek_req /\ seek_tgt <= FrameCount(path))
           => (cap_pos = seek_tgt /\ frame_count = seek_tgt)
    /\ (wpc = "detect" /\ seek_req)
           => (frame = seek_tgt /\ cap_pos = seek_tgt + 1
               /\ frame_count = seek_tgt + 1)
    /\ (wpc = "finally" /\ exit_path = "finished" /\ seek_req)
           => seek_tgt >= FrameCount(path)

C2_Witness ==
    /\ wpc = "detect" /\ seek_req /\ fps > TARGET_FPS_CAP
    /\ seek_tgt = MidFrame /\ frame = MidFrame

\* C3 (as stated): stop_requested goes from true to false only in the
\* worker's flag reset at the end of _run_internal.
C3_Original ==
    [][(stop_requested /\ ~stop_requested')
          => (wpc = "reset_flags" /\ wpc' = "finishing")]_vars

\* C3 (amended): stop_requested goes from true to false only in the worker's
\* flag reset or in the critical section of play(); load, pause, seek, stop
\* and release never clear it.
C3_StopClearedOnlyByWorkerOrPlay ==
    [][(stop_requested /\ ~stop_requested')
          => \/ (wpc = "reset_flags" /\ wpc' = "finishing")
             \/ (cpc = "idle" /\ cpc' = "play_check")]_vars

C3_Witness ==
    stop_requested /\ running /\ last_op \in {"pause", "seek", "load"}

\* C4 (as stated): at the step in which the worker thread terminates,
\* is_playing and stop_requested are both false.
C4_FlagsResetOnEveryExit ==
    [][(running /\ ~running') => (~is_playing' /\ ~stop_requested')]_vars

\* C5: whenever the worker thread is not running, the capture it opened is
\* closed and the landmarker of its detector is released.
C5_ResourcesReleased ==
    ~running => (~cap_open /\ ~landmarker)

C5_Witness ==
    ~running /\ exit_path = "failed" /\ ~cap_open /\ ~landmarker

\* The critical section of a stop_playback call that directly follows a
\* completed stop_playback call.
SecondStopLock ==
    cpc = "idle" /\ cpc' = "stop_wait" /\ last_op \in {"stop", "stop_again"}

\* C6 (as stated): the second of two stop() calls in a row finds
\* stop_requested already true and leaves CommandState and the worker's
\* liveness as they were.
C6_Original ==
    [][SecondStopLock => (stop_requested /\ UNCHANGED <<cmdstate, running>>)]_vars

\* C6 (amended): the second of two stop() calls in a row ends its critical
\* section with is_playing = false and stop_requested = true and changes
\* nothing else (is_playing was already false; the seek request, the session
\* and the worker are untouched); it changes nothing at all when
\* stop_requested was still true; and the wait of any stop changes no state.
C6_SecondStopSafe ==
    [][/\ SecondStopLock =>
             /\ ~is_playing /\ ~is_playing' /\ stop_requested'
             /\ UNCHANGED <<seek_requested, seek_target, video_path,
                            total_frames, running, wpc>>
             /\ stop_requested => UNCHANGED cmdstate
       /\ (cpc = "stop_wait" /\ cpc' = "idle")
             => UNCHANGED <<shared, running, wpc>>]_vars

C6_Witness ==
    cpc = "stop_wait" /\ last_op = "stop_again" /\ seek_requested /\ running

\* C7: a load_video that fails to open the source changes neither
\* CommandState nor the stored session and starts no worker; a load_video
\* that succeeds changes neither is_playing nor the worker.
C7_LoadFrameEffect ==
    [][/\ (cpc = "idle" /\ cpc' = "idle" /\ last_op' = "load" /\ ~load_ok'
           /\ (last_op # "load" \/ load_ok))
          => UNCHANGED <<cmdstate, video_path, total_frames, running, wpc>>
       /\ ((cpc = "idle" /\ cpc' = "load_store")
           \/ (cpc = "load_store" /\ cpc' = "idle"))
          => UNCHANGED <<cmdstate, running, wpc>>]_vars

C7_Witness ==
    /\ last_op = "load" /\ ~load_ok /\ cpc = "idle"
    /\ video_path # NoPath /\ is_playing /\ running

\* C8 (as stated): a seek beyond total_frames never puts the worker's frame
\* position beyond total_frames and never ends the run.
C8_SeekBeyondEndClampedOrRejected ==
    /\ (wpc \in {"skip", "read"} /\ seek_req /\ seek_tgt > total_frames)
           => frame_count <= total_frames
    /\ ~(wpc = "finally" /\ exit_path = "finished" /\ seek_req
         /\ seek_tgt > total_frames)

\* C9 (as stated): on a source faster than 30 fps the frames-to-advance
\* counts of consecutive non-seek iterations never decrease, and their sum
\* over the first N of them is within 1 of floor(N * fps / 30).
C9_SkipDriftBounded ==
    (wpc = "read" /\ skip_n > 0) =>
        /\ skip_prev <= frames_to_read
        /\ skip_sum - (skip_n * fps) \div TARGET_FPS_CAP \in -1 .. 1

\* C10: on the 60 fps source every non-seek iteration, the first of a run
\* included, computes frames_to_read = 2 and has dropped exactly one frame
\* when it makes its read.
C10_SixtyFpsAdvancesTwo ==
    (wpc = "read" /\ fps = 60 /\ ~seek_req) =>
        /\ frames_to_read = 2
        /\ skip_sum = 2 * skip_n
        /\ cap_pos = Min(frame_count + 1, FrameCount(path))

C10_Witness ==
    /\ wpc = "read" /\ fps = 60 /\ ~seek_req
    /\ skip_n = 4 /\ skip_sum = 8 /\ frames_to_read = 2

\* C11: a run emits at most one of playback_finished / error_occurred, at most
\* once, and no signal after it; a run that left its loop on a stop request
\* emits neither, playback_finished goes with the end-of-source exit only
\* and error_occurred with the two failure exits only.
C11_TerminalEventLast ==
    /\ terminal # "many"
    /\ ~late_event
    /\ exit_path \in {"stopped", "no_session"} => terminal = "none"
    /\ terminal = "finished" <=> exit_path = "finished"
    /\ terminal = "error" => exit_path \in {"open_failed", "failed"}

C11_Witness ==
    /\ wpc = "off" /\ exit_path = "failed" /\ terminal = "error"

\* C12: a failure raised inside the loop leaves the loop at once; the capture
\* and the landmarker are released before the exception reaches run(), where
\* it becomes the run's only error_occurred signal; the thread ends only
\* after that signal.
C12_FailureBecomesOneError ==
    failed =>
        /\ wpc \in {"finally", "except", "finishing", "off"}
        /\ wpc # "finally" => ~cap_open /\ ~landmarker
        /\ wpc \in {"finally", "except"} => terminal = "none"
        /\ wpc \in {"finishing", "off"} => terminal = "error"
        /\ ~late_event

C12_Witness ==
    /\ wpc = "finishing" /\ failed /\ terminal = "error"
    /\ ~cap_open /\ ~landmarker /\ cpc = "stop_wait"

\* C13: play()'s critical section sets is_playing, clears stop_requested and
\* touches nothing else; its start step leaves a running worker exactly as it
\* is (position, capture, detector, loop state) and starts a run from the
\* beginning only when no worker is running.
C13_PlayStartsOnlyWhenIdle ==
    [][ /\ (cpc = "idle" /\ cpc' = "play_check") =>
              /\ is_playing' /\ ~stop_requested'
              /\ UNCHANGED <<video_path, total_frames, seek_requested,
                             seek_target, running, wvars>>
        /\ (cpc = "play_check" /\ cpc' = "idle") =>
              IF running
              THEN UNCHANGED <<shared, running, wvars>>
              ELSE /\ running' /\ wpc' = "begin"
                   /\ UNCHANGED <<shared, cap_open, cap_pos, dvars>>
      ]_vars

C13_Witness ==
    /\ cpc = "idle" /\ last_op = "play" /\ is_playing /\ ~stop_requested
    /\ wpc = "seek" /\ ~playing /\ ~seek_req /\ cap_pos = MidFrame

\* C19: once stop_requested is set (and until play() or the run's own flag
\* reset clears it) the run emits at most one more frame_ready: an iteration
\* that has passed its poll and not yet emitted its frame is the only one
\* that still may, and nothing is emitted once a poll has seen the flag.
C19_AtMostOneFrameAfterStop ==
    /\ frames_since_stop <= 1
    /\ (stop_requested /\ wpc \in {"seek", "skip", "read", "detect"})
           => frames_since_stop = 0
    /\ exit_path = "stopped" => emitted = -1 /\ terminal = "none"

C19_Witness ==
    /\ wpc = "finally" /\ exit_path = "stopped" /\ frames_since_stop = 1
    /\ cpc = "stop_wait"

\* C14 (as stated): whenever is_playing is false and no seek is pending
\* (requested or being served), the worker is not decoding, detecting or
\* emitting.
C14_Original ==
    wpc \in {"skip", "read", "detect"}
        => is_playing \/ seek_requested \/ seek_req

\* C14 (amended): an iteration whose poll observed is_playing false and no
\* seek request goes straight back to the poll, leaving the capture, the
\* detector and the emitted signals untouched; only iterations whose poll
\* observed playing or a seek decode; and the worker leaves the poll/idle
\* cycle for its exit only at a poll that sees stop_requested.
C14_PausedIterationIdles ==
    [][ /\ (wpc = "seek" /\ ~playing /\ ~seek_req /\ wpc' # "seek") =>
              /\ wpc' = "poll"
              /\ UNCHANGED <<cap_open, cap_pos, frame_count, dvars, evars,
                             running>>
        /\ wpc' \in {"skip", "read", "detect"} => playing' \/ seek_req'
        /\ (wpc \in {"poll", "seek"} /\ wpc' \notin {"poll", "seek", "skip"})
              => (wpc = "poll" /\ stop_requested /\ wpc' = "finally")
      ]_vars

C14_Witness ==
    /\ wpc = "seek" /\ ~playing /\ ~seek_req /\ last_op = "pause"
    /\ cap_pos > MidFrame /\ cap_open

\* C17 (as stated): an iteration that serves a seek while paused (its poll
\* observed a seek request and is_playing false) has reset the detector once,
\* decodes the frame at seek_target, and does not end the run: it emits its
\* frame and the worker goes back to polling.
C17_PausedSeekServesOneFrame ==
    /\ (wpc = "detect" /\ seek_req /\ ~playing)
           => frame = seek_tgt /\ n_reset = 1
    /\ ~(wpc = "finally" /\ exit_path = "finished" /\ seek_req /\ ~playing)

\* C15: for every processing time the pacing step calls time.sleep exactly
\* when frame_delay - elapsed is positive, and then with that positive
\* duration: the time slept is max(0, 1/target_fps - elapsed), never a
\* negative number.
C15_SleepNeverNegative ==
    elapsed # -1 =>
        LET fd == FrameDelay(TargetFps(fps))
        IN  /\ did_sleep <=> fd - elapsed > 0
            /\ did_sleep => sleep_arg > 0
            /\ sleep_arg = Max(0, fd - elapsed)

C15_Witness ==
    /\ wpc = "poll" /\ elapsed = MaxElapsed /\ ~did_sleep /\ sleep_arg = 0
    /\ elapsed > FrameDelay(TargetFps(fps))

\* C16: for every vertex b and points a # b, c # b, calculate_angle(a, b, c)
\* equals calculate_angle(c, b, a) and lies in [0, 180].
C16_AngleSymmetricInRange ==
    (angle_abc # -1 /\ pt_a # pt_b /\ pt_c # pt_b) =>
        /\ angle_abc = angle_cba
        /\ angle_abc \in 0 .. 180

C16_Witness ==
    /\ angle_abc = 90 /\ angle_cba = 90
    /\ pt_b = <<1, -1>> /\ pt_a = <<0, -2>> /\ pt_c = <<-1, 1>>

\* C20: the four command fields change only in a step that takes the free
\* mutex, and the worker copies them only in such a step; a critical section
\* does not decode, detect, emit or start the thread; and a thread that holds
\* the mutex does nothing but release it: the caller does not go on to
\* start() or wait(), the worker does not sleep, decode, detect or emit.
C20_MutexDiscipline ==
    [][ /\ cmdstate' # cmdstate => (mutex = "free" /\ mutex' # "free")
        /\ (wpc = "poll" /\ wpc' # "poll")
              => (mutex = "free" /\ mutex' = "worker")
        /\ (mutex = "free" /\ mutex' # "free")
              => UNCHANGED <<cap_open, cap_pos, dvars, terminal, late_event,
                             running>>
        /\ mutex = "caller" => cpc' = cpc
        /\ mutex = "worker"
              => UNCHANGED <<wpc, cap_open, cap_pos, dvars, evars, pvars>>
      ]_vars

C20_Witness ==
    /\ mutex = "worker" /\ exit_path = "stopped" /\ wpc = "finally"
    /\ cpc = "stop_wait" /\ stop_requested

\* C18 (as stated): a worker that leaves its loop while stop_requested is
\* set has observed the flag and leaves without playback_finished or
\* error_occurred.
C18_Original ==
    (wpc = "finally" /\ stop_requested) => exit_path = "stopped"

\* C18 (amended): under fair scheduling, once stop_requested is set while a
\* worker is running, either the flag is cleared again (by a later play(), or
\* by the worker's own reset on its way out) or the worker terminates.
C18_StopLeadsToExit ==
    (stop_requested /\ running) ~> (~stop_requested \/ ~running)

C18_Witness ==
    /\ wpc = "finishing" /\ exit_path = "stopped" /\ last_op = "stop"
    /\ ~stop_requested /\ ~is_playing /\ mutex = "free"

\* C21: every detect call passes the previous timestamp of the same
\* landmarker plus int(1000 / target_fps), which is positive, so timestamps
\* on one landmarker strictly increase; a detect on a fresh landmarker (run
\* start or after reset()) passes exactly that step; and reset() leaves no
\* landmarker and a counter of 0.
C21_TimestampsIncrease ==
    [][ /\ (wpc = "detect" /\ wpc' # "detect" /\ landmarker') =>
              LET step == TimestampStep(TargetFps(fps))
              IN  /\ step > 0
                  /\ landmarker => /\ frame_timestamp_ms' > frame_timestamp_ms
                                   /\ frame_timestamp_ms'
                                          = frame_timestamp_ms + step
                  /\ ~landmarker => frame_timestamp_ms' = step
        /\ n_reset' > n_reset => (~landmarker' /\ frame_timestamp_ms' = 0)
        /\ ~landmarker' => frame_timestamp_ms' = 0
      ]_vars

C21_Witness ==
    /\ wpc = "pace" /\ landmarker /\ fps = 60 /\ n_reset = 1
    /\ frame_timestamp_ms = TimestampStep(TARGET_FPS_CAP)

\* C22: when the detector found no pose, or a pose lacking one of the
\* landmarks the angles need, the frame still gets its frame_ready, no
\* angles_updated is emitted for it and the loop goes on (no failure, no
\* exit); angles_updated is emitted exactly when the angles dict is not
\* empty, and then it holds all four keys.
C22_AnglesAllOrNothing ==
    /\ angles_sent => angles = AngleKeys
    /\ angles_sent <=> angles # {}
    /\ (landmarks # -1
        /\ \E k \in AngleKeys : \E idx \in AngleLandmarks[k] :
               idx >= landmarks)
           => /\ ~angles_sent
              /\ wpc = "pace" /\ n_ready = 1 /\ emitted # -1
              /\ ~failed /\ exit_path = "none"

C22_Witness ==
    /\ wpc = "pace" /\ landmarks = 16 /\ ~angles_sent /\ n_ready = 1
    /\ emitted = MidFrame

\* C23 (as stated): an iteration that decoded a frame and is past its
\* detect call has emitted exactly one position_changed and exactly one
\* frame_ready.
C23_Original ==
    /\ n_pos <= 1 /\ n_ready <= 1
    /\ (n_pos = 1 /\ wpc # "detect") => n_ready = 1

\* C23 (amended): nothing is emitted in an iteration before its read, the
\* skipped frames included; the read emits one position_changed carrying the
\* capture position after it; a processing that returns emits one
\* frame_ready, for the frame just read; a processing that raises emits none
\* and ends the run as failed.
C23_OneFramePerRead ==
    /\ n_ready <= n_pos /\ n_pos <= 1
    /\ wpc \in {"seek", "skip", "read"} => (n_pos = 0 /\ emitted = -1)
    /\ wpc = "detect" =>
          /\ n_pos = 1 /\ n_ready = 0
          /\ pos_sent = cap_pos /\ frame = cap_pos - 1
    /\ wpc = "pace" =>
          /\ n_pos = 1 /\ n_ready = 1
          /\ pos_sent = cap_pos /\ emitted = cap_pos - 1
    /\ (wpc = "finally" /\ n_pos = 1) => (failed /\ n_ready = 0)

C23_Witness ==
    /\ wpc = "pace" /\ fps = 60 /\ skip_n = 2 /\ n_pos = 1 /\ n_ready = 1
    /\ pos_sent = 4 /\ emitted = 3

\* C24 (as stated): on a loaded session, a play() that has returned and was
\* not followed by pause() or stop_playback() is never left unserved with no
\* worker running after a run that ended by end of source or by a stop: the
\* worker either reads is_playing as true at a poll or a new run is started.
C24_PlayNeverLost ==
    ~ /\ play_pending /\ cpc = "idle" /\ mutex = "free"
      /\ video_path # NoPath
      /\ ~running /\ exit_path \in {"finished", "stopped"}

\* C25: seek_requested and seek_target are changed only by set_position,
\* which sets the request, and by a poll that does not see stop_requested,
\* which takes the request and its target into the iteration and clears it;
\* a poll that sees stop_requested, the worker's exit and load_video leave
\* them as they are.  A request pending when a run starts is therefore taken
\* by the first poll of that run that goes on into the loop.
C25_SeekSurvivesExitAndLoad ==
    [][ /\ (seek_requested' # seek_requested \/ seek_target' # seek_target)
              => \/ (cpc = "idle" /\ last_op' = "seek" /\ seek_requested')
                 \/ (wpc = "poll" /\ wpc' = "seek" /\ seek_requested
                     /\ ~seek_requested' /\ seek_target' = seek_target)
        /\ (wpc = "poll" /\ wpc' = "seek")
              => /\ seek_req' = seek_requested
                 /\ seek_tgt' = seek_target
                 /\ ~seek_requested'
        /\ (wpc = "seek" /\ wpc' # "seek" /\ seek_req)
              => frame_count' = seek_tgt
      ]_vars

C25_Witness ==
    /\ wpc = "off" /\ exit_path = "stopped"
    /\ seek_requested /\ seek_target = MidFrame
    /\ cpc = "idle" /\ last_op = "load" /\ video_path = "b45.mp4"

====
